---- MODULE Spec2Model ----
(***************************************************************************)
(* sqlkit: leader/follower connection manager.                             *)
(*   - transaction coordinator (sqlkit/transaction.go)                     *)
(*   - follower router, health monitor (sqlkit/errors.go: db.go, health.go)*)
(*   - construction, connect retries, Close (sqlkit/errors.go: db.go)       *)
(*   - repository connection selection (repository/sql/helpers.go)         *)
(***************************************************************************)
EXTENDS Integers, Sequences, FiniteSets, TLC

\* ------------------------------------------------------------------ bounds
MaxFollowers == 2      \* configured follower endpoints
MaxInvocations == 2    \* transaction entry-point invocations
MaxCtx == 3            \* call scopes (context values) ever created
MaxCallers == 2        \* concurrent request paths calling Follower()
MaxRetriesCfg == 2     \* largest MaxRetries a configuration sets
MaxLockFollowers == 1  \* followers of the manager whose locking is analysed

VARIABLES
  ctxs,               \* heap of context values: parent pointer, key, value
  txs,                \* transactions begun so far (*sql.Tx): "open" or "closed"
  inv,                \* call stack of transaction entry-point invocations
  followers,          \* db.followers: live follower handles, in order
  followerIdx,        \* db.followerIdx: round-robin cursor
  followerMu,         \* db.followerMu: holder (0 = free)
  healthMu,           \* db.healthMu: [writer, readers]
  leaderHealth,       \* db.leaderHealth
  followerHealthMap,  \* db.followerHealthMap: index -> snapshot
  call,               \* per request path: position inside Follower()
  mon,                \* health monitor goroutine: position inside checkHealth
  hist,               \* results of completed Follower() calls since the
                      \* health table last changed (newest last)
  cfg,                \* the *Config handed to New (New writes its defaults into it)
  life,               \* the manager's life: New, connect, Close
  repo                \* the connection the repository handed out last

vars == <<ctxs, txs, inv, followers, followerIdx, followerMu, healthMu,
          leaderHealth, followerHealthMap, call, mon, hist, cfg, life, repo>>

mgrVars == <<cfg, life, repo>>

txVars == <<ctxs, txs, inv>>
routerVars == <<followers, followerIdx, followerMu, healthMu, leaderHealth,
                followerHealthMap, call, mon, hist>>

\* ------------------------------------------------------------ error values
\* An error is its message and the set of underlying errors errors.Is finds
\* in its Unwrap chain.
NilErr == [msg |-> "nil", chain |-> {}]
BodyErr == [msg |-> "body failed", chain |-> {"body"}]
BeginErr == [msg |-> "begin failed", chain |-> {"begin"}]
CommitErr == [msg |-> "commit failed", chain |-> {"commit"}]
RollbackErr == [msg |-> "rollback failed", chain |-> {"rollback"}]
PanicValue == [msg |-> "body panic", chain |-> {"panic"}]

\* fmt.Errorf(msg + %w ...): wraps every error in errs
Errorf(msg, errs) == [msg |-> msg, chain |-> UNION {e.chain : e \in errs}]

ErrNested == Errorf("sqlkit: nested transaction detected", {})

\* ---------------------------------------------------------------- contexts
NoTx == 0
NoCtx == 0

\* context.WithValue: a new node pointing at its parent; the parent is not
\* touched.  Returns the new heap; the new context is its last element.
WithValue(heap, parent, key, val) ==
  Append(heap, [parent |-> parent, key |-> key, val |-> val])

InjectTxInPlace(heap, ctx, tx) ==
  Append([heap EXCEPT ![ctx] = [parent |-> heap[ctx].parent, key |-> "txKey", val |-> tx]],
         [parent |-> ctx, key |-> "txKey", val |-> tx])

InjectTx(heap, ctx, tx) == WithValue(heap, ctx, "txKey", tx)

\* ctx.Value(key): nearest node on the parent chain holding key
RECURSIVE Value(_, _, _)
Value(heap, c, key) ==
  IF c = NoCtx THEN [found |-> FALSE, val |-> 0]
  ELSE IF heap[c].key = key THEN [found |-> TRUE, val |-> heap[c].val]
  ELSE Value(heap, heap[c].parent, key)

ExtractTx(heap, c) ==
  LET v == Value(heap, c, "txKey")
  IN  IF v.found THEN [tx |-> v.val, ok |-> TRUE] ELSE [tx |-> NoTx, ok |-> FALSE]

\* c is d or a scope derived from d
RECURSIVE DerivedFrom(_, _, _)
DerivedFrom(heap, c, d) ==
  IF c = NoCtx THEN FALSE
  ELSE IF c = d THEN TRUE
  ELSE DerivedFrom(heap, heap[c].parent, d)

\* ------------------------------------------------------------------ router
LeaderHandle == 0      \* db.leader; follower handles are 1, 2, ... (configured position)

Snapshot(healthy, err) == [Healthy |-> healthy, Error |-> err]

NumFollowers == Len(followers)

\* followers[idx] with Go's 0-based index
FollowerAt(idx) == followers[idx + 1]

HealthyAtAlways(hm, idx) == TRUE

\* healthy := ok && followerHealth.Healthy
HealthyAt(hm, idx) == idx \in DOMAIN hm /\ hm[idx].Healthy

ScanIdxStuck(startIdx, i, n) == startIdx % n

\* idx := (startIdx + i) % len(db.followers)
ScanIdx(startIdx, i, n) == (startIdx + i) % n

AdvanceIdxStuck(idx, n) == idx % n

\* db.followerIdx = (idx + 1) % len(db.followers)
AdvanceIdx(idx, n) == (idx + 1) % n

\* The scan loop of Follower() from iteration i on, with the health table hm
\* fixed: the handle returned and the cursor left behind.
RECURSIVE FollowerLoop(_, _, _, _)
FollowerLoop(hm, startIdx, i, cursor) ==
  IF i >= NumFollowers THEN [handle |-> LeaderHandle, cursor |-> cursor]
  ELSE LET idx == ScanIdx(startIdx, i, NumFollowers)
           next == AdvanceIdx(idx, NumFollowers)
       IN  IF HealthyAt(hm, idx) /\ FollowerAt(idx) # -1
           THEN [handle |-> FollowerAt(idx), cursor |-> next]
           ELSE FollowerLoop(hm, startIdx, i + 1, next)

\* db.Follower() run to completion against the current health table
Follower ==
  IF NumFollowers = 0 THEN [handle |-> LeaderHandle, cursor |-> followerIdx]
  ELSE FollowerLoop(followerHealthMap, followerIdx, 0, followerIdx)

\* ------------------------------------------------------------ transactions
\* The entry points are modelled as called by one goroutine: inv is its call
\* stack, inv[1] outermost.  A body may call an entry point again with any
\* scope that exists; the frame above must have returned before a body goes on.
Invocations == 1..MaxInvocations

IdleFrame ==
  [pc |-> "idle", kind |-> "none", ctx |-> NoCtx, txCtx |-> NoCtx, tx |-> NoTx,
   conn |-> -1, readOnly |-> FALSE,
   fnErr |-> NilErr, panicked |-> FALSE, panicVal |-> NilErr,
   result |-> NilErr, exit |-> "none", bodyCalls |-> 0, commits |-> 0,
   rollbacks |-> 0, outcome |-> "none", termOk |-> TRUE, beginOk |-> TRUE]

\* Index of the innermost frame in use, 0 when none is
Top ==
  LET used == {i \in Invocations : inv[i].pc # "idle"}
  IN  IF used = {} THEN 0 ELSE CHOOSE i \in used : \A j \in used : j <= i

\* The same failure is worded differently by WithTransactionOptions and by
\* WithReadOnlyTransaction
Msg(kind, plain, readOnly) ==
  IF kind = "WithReadOnlyTransaction" THEN readOnly ELSE plain

\* `if _, ok := ExtractTx(ctx); ok { return ... nested transaction detected }`
NestedNever(heap, c) == FALSE

NestedOpenOnly(heap, c) ==
  ExtractTx(heap, c).ok /\ txs[ExtractTx(heap, c).tx] = "open"

Nested(heap, c) == ExtractTx(heap, c).ok

BeginFailsNever(beginOk) == FALSE

\* `tx, err := conn.BeginTx(ctx, opts); if err != nil { return ... }`
BeginFails(beginOk) == ~beginOk

\* Entry common to the three entry points: nested check, BeginTx on handle h,
\* InjectTx, defer registered, fn(txCtx) invoked.
Enter(i, kind, c, h, readOnly, beginOk) ==
  /\ i = Top + 1
  /\ i > 1 => inv[i - 1].pc = "body"
  /\ c \in DOMAIN ctxs
  /\ IF Nested(ctxs, c)
     THEN /\ inv' = [inv EXCEPT ![i] = [IdleFrame EXCEPT !.pc = "done", !.kind = kind,
                        !.ctx = c, !.result = ErrNested, !.exit = "return"]]
          /\ UNCHANGED <<ctxs, txs, followerIdx>>
     ELSE /\ followerIdx' = IF kind = "WithReadOnlyTransaction" THEN Follower.cursor
                            ELSE followerIdx
          /\ IF BeginFails(beginOk)
             THEN /\ inv' = [inv EXCEPT ![i] = [IdleFrame EXCEPT !.pc = "done",
                                !.kind = kind, !.ctx = c, !.exit = "return",
                                !.beginOk = beginOk,
                                !.result = Errorf(Msg(kind, "sqlkit: failed to begin transaction",
                                         "sqlkit: failed to begin read-only transaction"),
                                     {BeginErr})]]
                  /\ UNCHANGED <<ctxs, txs>>
             ELSE /\ Len(ctxs) < MaxCtx
                  /\ txs' = Append(txs, "open")
                  /\ ctxs' = InjectTx(ctxs, c, Len(txs) + 1)
                  /\ inv' = [inv EXCEPT ![i] = [IdleFrame EXCEPT !.pc = "body",
                                !.kind = kind, !.ctx = c, !.txCtx = Len(ctxs) + 1,
                                !.tx = Len(txs) + 1, !.conn = h, !.readOnly = readOnly,
                                !.panicked = TRUE, !.bodyCalls = 1,
                                !.beginOk = beginOk]]
  /\ UNCHANGED <<followers, followerMu, healthMu, leaderHealth, followerHealthMap,
                 call, mon, hist>>
  /\ UNCHANGED mgrVars

\* db.WithTransaction(ctx, fn) = db.WithTransactionOptions(ctx, nil, fn)
WithTransaction(i, c, beginOk) ==
  Enter(i, "WithTransaction", c, LeaderHandle, FALSE, beginOk)

WithTransactionOptions(i, c, readOnly, beginOk) ==
  Enter(i, "WithTransactionOptions", c, LeaderHandle, readOnly, beginOk)

WithReadOnlyTransactionOnLeader(i, c, beginOk) ==
  Enter(i, "WithReadOnlyTransaction", c, LeaderHandle, TRUE, beginOk)

\* conn := db.Follower(); opts.ReadOnly = true; tx, err := conn.BeginTx(ctx, opts)
WithReadOnlyTransaction(i, c, beginOk) ==
  Enter(i, "WithReadOnlyTransaction", c, Follower.handle, TRUE, beginOk)

\* The caller, a body or one of its callees derives a scope from one it holds
DeriveScope(parent) ==
  /\ parent \in DOMAIN ctxs
  /\ Len(ctxs) < MaxCtx
  /\ ctxs' = WithValue(ctxs, parent, "otherKey", 0)
  /\ UNCHANGED <<txs, inv>>
  /\ UNCHANGED <<routerVars, mgrVars>>

\* fnErr = fn(txCtx); panicked = false; return fnErr  -- or fn panics
BodyExit(i, outcome) ==
  /\ i = Top
  /\ inv[i].pc = "body"
  /\ inv' = [inv EXCEPT ![i] =
       CASE outcome = "nil" ->
              [@ EXCEPT !.pc = "defer", !.outcome = outcome, !.fnErr = NilErr,
                        !.panicked = FALSE, !.result = NilErr]
         [] outcome = "err" ->
              [@ EXCEPT !.pc = "defer", !.outcome = outcome, !.fnErr = BodyErr,
                        !.panicked = FALSE, !.result = BodyErr]
         [] outcome = "panic" ->
              [@ EXCEPT !.pc = "defer", !.outcome = outcome, !.panicVal = PanicValue]]
  /\ UNCHANGED <<ctxs, txs>>
  /\ UNCHANGED <<routerVars, mgrVars>>

\* The deferred switch: which terminal calls it makes on tx, in order
DeferredCallsBoth(panicked, fnErr) ==
  IF panicked THEN <<"rollback">>
  ELSE IF fnErr # NilErr THEN <<"rollback", "commit">>
  ELSE <<"commit">>

DeferredCallsSwapped(panicked, fnErr) ==
  IF panicked THEN <<"rollback">>
  ELSE IF fnErr # NilErr THEN <<"commit">>
  ELSE <<"rollback">>

DeferredCallsPanicCommit(panicked, fnErr) ==
  IF panicked THEN <<"commit">>
  ELSE IF fnErr # NilErr THEN <<"rollback">>
  ELSE <<"commit">>

DeferredCalls(panicked, fnErr) ==
  IF panicked THEN <<"rollback">>
  ELSE IF fnErr # NilErr THEN <<"rollback">>
  ELSE <<"commit">>

\* The local fnErr after the deferred function ran (ok: the terminal call succeeded)
DeferredFnErr(kind, panicked, fnErr, ok) ==
  IF panicked THEN fnErr
  ELSE IF fnErr # NilErr
       THEN IF ok THEN fnErr
            ELSE Errorf(Msg(kind, "sqlkit: transaction error, rollback error",
                             "sqlkit: read-only transaction error, rollback error"),
                        {fnErr, RollbackErr})
       ELSE IF ok THEN fnErr
            ELSE Errorf(Msg(kind, "sqlkit: commit failed",
                             "sqlkit: read-only transaction commit failed"),
                        {CommitErr})

\* The value in flight when the deferred function ends on the panic path:
\* the body's panic continues, unless the deferred function itself panics.
DeferredPanic(kind, panicVal, ok) ==
  IF ok THEN panicVal
  ELSE Errorf(Msg(kind, "sqlkit: transaction panic and rollback failed",
                   "sqlkit: read-only transaction panic and rollback failed"),
              {RollbackErr})

\* The entry points declare an unnamed result: `return fnErr` copies fnErr
\* into the result before the deferred function runs, and the deferred
\* function assigns only the local.
ReturnValue(atReturn, afterDefer) == atReturn

Count(s, x) == Cardinality({k \in DOMAIN s : s[k] = x})

\* The deferred function; a transaction is finished by the first Commit or
\* Rollback called on it, whether that call succeeds or not.
Deferred(i, ok) ==
  /\ i = Top
  /\ inv[i].pc = "defer"
  /\ LET r == inv[i]
         calls == DeferredCalls(r.panicked, r.fnErr)
         after == DeferredFnErr(r.kind, r.panicked, r.fnErr, ok)
     IN  /\ inv' = [inv EXCEPT ![i] =
                [r EXCEPT !.pc = "done",
                          !.commits = Count(calls, "commit"),
                          !.rollbacks = Count(calls, "rollback"),
                          !.fnErr = after, !.termOk = ok,
                          !.exit = IF r.panicked THEN "panic" ELSE "return",
                          !.result = IF r.panicked THEN r.result
                                     ELSE ReturnValue(r.result, after),
                          !.panicVal = IF r.panicked
                                       THEN DeferredPanic(r.kind, r.panicVal, ok)
                                       ELSE r.panicVal]]
         /\ txs' = [txs EXCEPT ![r.tx] = IF calls # <<>> THEN "closed" ELSE @]
  /\ UNCHANGED ctxs
  /\ UNCHANGED <<routerVars, mgrVars>>

\* The entry point has returned (or panicked) to its caller: the frame is gone
Return(i) ==
  /\ i = Top
  /\ inv[i].pc = "done"
  /\ inv' = [inv EXCEPT ![i] = IdleFrame]
  /\ UNCHANGED <<ctxs, txs>>
  /\ UNCHANGED <<routerVars, mgrVars>>

\* ------------------------------------------------- follower router, by step
Callers == 1..MaxCallers

\* steady (history): the follower indexes that have been healthy at every
\* moment since this call began; lookups, writes (history): the reads of
\* db.followerHealthMap and the assignments to db.followerIdx the call has made
IdleCall ==
  [pc |-> "idle", startIdx |-> 0, i |-> 0, steady |-> {}, lookups |-> 0, writes |-> 0]

AttemptsOneMore == NumFollowers + 1

\* attempts := len(db.followers)
Attempts == NumFollowers

HealthySet == {idx \in 0..(NumFollowers - 1) : HealthyAt(followerHealthMap, idx)}

\* hist keeps the last NumFollowers + 1 results: a full rotation and one more
Remember(h, x) == IF Len(h) < NumFollowers + 1 THEN Append(h, x) ELSE Append(Tail(h), x)

\* Follower(): `if len(db.followers) == 0 { return db.leader }`, else go for the lock
FollowerBegin(c) ==
  /\ call[c].pc = "idle"
  /\ IF NumFollowers = 0
     THEN /\ hist' = Remember(hist, -1)
          /\ UNCHANGED call
     ELSE /\ call' = [call EXCEPT ![c] = [IdleCall EXCEPT !.pc = "lock", !.steady = HealthySet]]
          /\ UNCHANGED hist
  /\ UNCHANGED <<followers, followerIdx, followerMu, healthMu, leaderHealth,
                 followerHealthMap, mon>>
  /\ UNCHANGED <<txVars, mgrVars>>

LockAlways(holder) == TRUE

\* sync.Mutex: Lock() returns only while no goroutine holds the mutex
Lock(holder) == holder = 0

\* db.followerMu.Lock(); attempts := len(db.followers); startIdx := db.followerIdx
FollowerLock(c) ==
  /\ call[c].pc = "lock"
  /\ Lock(followerMu)
  /\ followerMu' = c
  /\ call' = [call EXCEPT ![c] = [@ EXCEPT !.pc = "scan", !.startIdx = followerIdx, !.i = 0]]
  /\ UNCHANGED <<followers, followerIdx, healthMu, leaderHealth, followerHealthMap,
                 mon, hist>>
  /\ UNCHANGED <<txVars, mgrVars>>

\* One iteration of the scan loop: advance the cursor, look the index up
\* under the read lock, return the follower if healthy and live.
FollowerScan(c) ==
  /\ call[c].pc = "scan"
  /\ call[c].i < Attempts
  /\ ~healthMu.writer
  /\ LET idx == ScanIdx(call[c].startIdx, call[c].i, NumFollowers)
     IN  /\ followerIdx' = AdvanceIdx(idx, NumFollowers)
         /\ IF HealthyAt(followerHealthMap, idx) /\ FollowerAt(idx) # -1
            THEN /\ call' = [call EXCEPT ![c] = IdleCall]
                 /\ followerMu' = 0
                 /\ hist' = Remember(hist, idx)
            ELSE /\ call' = [call EXCEPT ![c] = [@ EXCEPT !.i = @ + 1,
                                                           !.lookups = @ + 1,
                                                           !.writes = @ + 1]]
                 /\ UNCHANGED <<followerMu, hist>>
  /\ UNCHANGED <<followers, healthMu, leaderHealth, followerHealthMap, mon>>
  /\ UNCHANGED <<txVars, mgrVars>>

FollowerFallbackKeepsLock(c) ==
  /\ call[c].pc = "scan"
  /\ call[c].i >= Attempts
  /\ call' = [call EXCEPT ![c] = IdleCall]
  /\ hist' = Remember(hist, -1)
  /\ UNCHANGED <<followers, followerIdx, followerMu, healthMu, leaderHealth,
                 followerHealthMap, mon>>
  /\ UNCHANGED <<txVars, mgrVars>>

\* Loop exhausted: `return db.leader` (deferred followerMu.Unlock())
FollowerFallback(c) ==
  /\ call[c].pc = "scan"
  /\ call[c].i >= Attempts
  /\ call' = [call EXCEPT ![c] = IdleCall]
  /\ followerMu' = 0
  /\ hist' = Remember(hist, -1)
  /\ UNCHANGED <<followers, followerIdx, healthMu, leaderHealth, followerHealthMap, mon>>
  /\ UNCHANGED <<txVars, mgrVars>>

\* ------------------------------------------ GetHealth and IsHealthy, by step
\* The two readers of the health table
Readers == {"GetHealth", "IsHealthy"}

\* GetHealth() or IsHealthy() is called: next it asks for the read lock
ReadBegin(c, op) ==
  /\ call[c].pc = "idle"
  /\ call' = [call EXCEPT ![c] = [IdleCall EXCEPT !.pc = op]]
  /\ UNCHANGED <<followers, followerIdx, followerMu, healthMu, leaderHealth,
                 followerHealthMap, mon, hist>>
  /\ UNCHANGED <<txVars, mgrVars>>

\* db.healthMu.RLock(): returns while no writer holds the lock
ReadRLock(c) ==
  /\ call[c].pc \in Readers
  /\ c \notin healthMu.readers
  /\ ~healthMu.writer
  /\ healthMu' = [healthMu EXCEPT !.readers = @ \cup {c}]
  /\ UNCHANGED <<followers, followerIdx, followerMu, leaderHealth, followerHealthMap,
                 call, mon, hist>>
  /\ UNCHANGED <<txVars, mgrVars>>

\* The snapshot is copied and the call returns: `defer db.healthMu.RUnlock()`
ReadReturn(c) ==
  /\ call[c].pc \in Readers
  /\ c \in healthMu.readers
  /\ healthMu' = [healthMu EXCEPT !.readers = @ \ {c}]
  /\ call' = [call EXCEPT ![c] = IdleCall]
  /\ UNCHANGED <<followers, followerIdx, followerMu, leaderHealth, followerHealthMap,
                 mon, hist>>
  /\ UNCHANGED <<txVars, mgrVars>>

\* ---------------------------------------------------- health monitor, by step
\* What an endpoint does with a ping: it answers, it refuses (an error at
\* once), or it hangs until the context's deadline
Outcomes == {"answers", "refuses", "hangs"}

\* ctx, cancel := context.WithTimeout(db.ctx, db.config.Health.Timeout): one
\* context for the whole cycle; with a zero timeout its deadline has passed
\* when it is made
BornExpired(timeout) == timeout = 0

\* db.ping(ctx, conn): conn.PingContext(ctx) == nil.  It fails at once when
\* ctx is done: its deadline has passed (expired), or db.ctx is cancelled.
Ping(r, expired) == r = "answers" /\ ~expired /\ ~life.cancelled

ProbeSnapshotPartial(old, ok) == [old EXCEPT !.Healthy = ok]

\* The ConnectionHealth literal checkHealth assigns for a pinged connection:
\* every field comes from this probe, nothing of the old snapshot is kept
ProbeSnapshot(old, ok) == Snapshot(ok, IF ok THEN "" ELSE "ping failed")

\* checkHealth: leaderHealthy := db.ping(ctx, db.leader), outside the lock
MonPingLeader(r) ==
  /\ mon.pc = "tick"
  /\ LET expired == BornExpired(cfg.health.Timeout)
     IN  mon' = [mon EXCEPT !.pc = "leader", !.leaderHealthy = Ping(r, expired),
                            !.expired = expired \/ r = "hangs", !.probed = r]
  /\ UNCHANGED <<followers, followerIdx, followerMu, healthMu, leaderHealth,
                 followerHealthMap, call, hist>>
  /\ UNCHANGED <<txVars, mgrVars>>

\* healthMu.Lock(); db.leaderHealth = ...; healthMu.Unlock()
MonWriteLeader ==
  /\ mon.pc = "leader"
  /\ ~healthMu.writer /\ healthMu.readers = {}
  /\ leaderHealth' = ProbeSnapshot(leaderHealth, mon.leaderHealthy)
  /\ mon' = [mon EXCEPT !.pc = "followers"]
  /\ UNCHANGED <<followers, followerIdx, followerMu, healthMu, followerHealthMap,
                 call, hist>>
  /\ UNCHANGED <<txVars, mgrVars>>

\* healthMu.Lock() before the follower loop
MonLockFollowers ==
  /\ mon.pc = "followers"
  /\ ~healthMu.writer /\ healthMu.readers = {}
  /\ healthMu' = [healthMu EXCEPT !.writer = TRUE]
  /\ mon' = [mon EXCEPT !.pc = "probe", !.i = 0]
  /\ UNCHANGED <<followers, followerIdx, followerMu, leaderHealth, followerHealthMap,
                 call, hist>>
  /\ UNCHANGED <<txVars, mgrVars>>

\* One iteration of the follower loop (the lock is held): a nil slot is
\* recorded without a ping, any other is pinged and its snapshot replaced.
MonProbeFollower(r) ==
  /\ mon.pc = "probe"
  /\ mon.i < NumFollowers
  /\ LET idx == mon.i
         old == IF idx \in DOMAIN followerHealthMap THEN followerHealthMap[idx]
                ELSE Snapshot(FALSE, "")
         snap == IF FollowerAt(idx) = -1 THEN Snapshot(FALSE, "connection is nil")
                 ELSE ProbeSnapshot(old, Ping(r, mon.expired))
         changed == ~(idx \in DOMAIN followerHealthMap)
                    \/ followerHealthMap[idx].Healthy # snap.Healthy
     IN  /\ followerHealthMap' = [k \in DOMAIN followerHealthMap \cup {idx} |->
                                    IF k = idx THEN snap ELSE followerHealthMap[k]]
         /\ hist' = IF changed THEN <<>> ELSE hist
         /\ call' = [c \in Callers |->
                       IF call[c].pc = "idle" \/ ~changed THEN call[c]
                       ELSE [call[c] EXCEPT !.steady = @ \ {idx}]]
  /\ mon' = [mon EXCEPT !.i = @ + 1, !.expired = @ \/ r = "hangs", !.probed = r]
  /\ UNCHANGED <<followers, followerIdx, followerMu, healthMu, leaderHealth>>
  /\ UNCHANGED <<txVars, mgrVars>>

\* healthMu.Unlock() after the follower loop; back to waiting for the ticker
MonUnlock ==
  /\ mon.pc = "probe"
  /\ mon.i >= NumFollowers
  /\ healthMu' = [healthMu EXCEPT !.writer = FALSE]
  /\ mon' = [mon EXCEPT !.pc = "tick", !.i = 0, !.expired = FALSE, !.probed = "none"]
  /\ UNCHANGED <<followers, followerIdx, followerMu, leaderHealth, followerHealthMap,
                 call, hist>>
  /\ UNCHANGED <<txVars, mgrVars>>

\* runHealthChecks: `case <-db.ctx.Done(): return`.  With a tick pending as
\* well the select may take either case, so MonPingLeader stays enabled.
CtxDoneNever == FALSE

CtxDoneOnClose == life.pc = "closed"

\* <-db.ctx.Done() is ready: db.ctx, derived from New's ctx, is cancelled
CtxDone == life.cancelled

\* `defer ticker.Stop()` runs on this return
MonExit ==
  /\ mon.pc = "tick"
  /\ CtxDone
  /\ mon' = [mon EXCEPT !.pc = "stopped", !.ticker = "stopped"]
  /\ UNCHANGED <<followers, followerIdx, followerMu, healthMu, leaderHealth,
                 followerHealthMap, call, hist>>
  /\ UNCHANGED <<txVars, mgrVars>>

\* -------------------------------------------------- configuration and New
ErrInvalidConfig == [msg |-> "sqlkit: invalid configuration", chain |-> {"invalid config"}]
OpenErr == [msg |-> "open failed", chain |-> {"open"}]
PingErr == [msg |-> "ping failed", chain |-> {"ping"}]
CloseErr == [msg |-> "close failed", chain |-> {"close"}]

\* DefaultHealthConfig(): Enabled true, CheckInterval 30s, Timeout 5s
DefaultHealthConfig == [Enabled |-> TRUE, CheckInterval |-> 30, Timeout |-> 5]

\* `if cfg.Health.CheckInterval == 0 { cfg.Health = DefaultHealthConfig() }`
ApplyHealthDefaults(h) == IF h.CheckInterval = 0 THEN DefaultHealthConfig ELSE h

\* The configurations New is called with.  valid: Validate() returns nil.
\* maxRetries is the MaxRetries of every endpoint, 0 when left unset.
Configs ==
  [valid : BOOLEAN, nFollowers : 0..MaxFollowers, maxRetries : 0..MaxRetriesCfg,
   supplied : [Enabled : BOOLEAN, CheckInterval : {0, 30}, Timeout : {0, 5}],
   health : [Enabled : BOOLEAN, CheckInterval : {0, 30}, Timeout : {0, 5}]]

\* connect: `if maxRetries == 0 { maxRetries = 3 }`
EffectiveRetries(m) == IF m = 0 THEN 3 ELSE m

\* `if attempt < maxRetries-1 { time.Sleep(...); continue }`
RetryAgain(attempt, maxRetries) == attempt < maxRetries - 1

BackoffFlat(attempt) == 100

\* time.Duration(attempt+1) * 100 * time.Millisecond, in ms
Backoff(attempt) == (attempt + 1) * 100

FatalAlways(ep) == TRUE

\* New returns an error for initLeader's failure; initFollowers returns none.
\* ep: 0 the leader, p the follower at configured position p.
Fatal(ep) == ep = 0

\* What life records of a connect that has returned (history)
NoConnect == [ep |-> -1, attempts |-> 0, sleeps |-> <<>>, ok |-> FALSE, err |-> NilErr]

BeforeNew ==
  [pc |-> "new", ep |-> 0, attempt |-> 0, sleeps |-> <<>>, last |-> NoConnect,
   failed |-> {}, leaderUp |-> FALSE, err |-> NilErr, cancelled |-> FALSE,
   closeTried |-> <<>>, closeFailing |-> {}, closeErr |-> NilErr]

\* New up to its first connect: Validate, defaults, context.WithCancel, &DB{...}
New ==
  /\ life.pc = "new"
  /\ IF ~cfg.valid
     THEN /\ life' = [life EXCEPT !.pc = "failed",
                        !.err = Errorf("sqlkit: invalid configuration", {ErrInvalidConfig})]
          /\ UNCHANGED cfg
     ELSE /\ cfg' = [cfg EXCEPT !.health = ApplyHealthDefaults(cfg.health)]
          /\ life' = [life EXCEPT !.pc = "connect", !.ep = 0]
  /\ UNCHANGED <<followers, followerIdx, followerMu, healthMu, leaderHealth,
                 followerHealthMap, call, mon, hist, repo>>
  /\ UNCHANGED txVars

\* connect has returned (conn or err) to initLeader or initFollowers, and New
\* goes on from there: up to the next connect, or to its own return.
AfterConnect(ok, err) ==
  LET ep == life.ep
      done == [ep |-> ep, attempts |-> life.attempt + 1, sleeps |-> life.sleeps,
               ok |-> ok, err |-> err]
      more == ep < cfg.nFollowers
      on == [life EXCEPT !.last = done, !.attempt = 0, !.sleeps = <<>>,
                         !.ep = IF more THEN ep + 1 ELSE ep,
                         !.pc = IF more THEN "connect" ELSE "live",
                         !.leaderUp = IF ep = 0 THEN ok ELSE @,
                         !.failed = IF ep # 0 /\ ~ok THEN @ \cup {ep} ELSE @]
      \* `if cfg.Health.Enabled { go db.runHealthChecks() }`
      started == IF ~more /\ cfg.health.Enabled THEN [mon EXCEPT !.pc = "tick", !.ticker = "running"]
                 ELSE mon
  IN  IF ~ok /\ Fatal(ep)
      THEN /\ life' = [life EXCEPT !.pc = "failed", !.last = done, !.attempt = 0,
                         !.sleeps = <<>>, !.cancelled = TRUE,
                         !.leaderUp = IF ep = 0 THEN FALSE ELSE @,
                         !.err = Errorf("sqlkit: failed to initialize leader", {err})]
           /\ UNCHANGED <<followers, leaderHealth, followerHealthMap, mon>>
      ELSE /\ life' = on
           /\ mon' = started
           /\ leaderHealth' = IF ep = 0 THEN Snapshot(TRUE, "") ELSE leaderHealth
           /\ IF ep # 0 /\ ok
              THEN LET idx == Len(followers)
                   IN  /\ followers' = Append(followers, ep)
                       /\ followerHealthMap' =
                            [k \in DOMAIN followerHealthMap \cup {idx} |->
                               IF k = idx THEN Snapshot(TRUE, "") ELSE followerHealthMap[k]]
              ELSE UNCHANGED <<followers, followerHealthMap>>

\* One iteration of connect's retry loop for endpoint life.ep: sql.Open and
\* PingContext, then return the connection, sleep and retry, or give up.
ConnectAttempt(outcome) ==
  /\ life.pc = "connect"
  /\ LET maxRetries == EffectiveRetries(cfg.maxRetries)
         attempt == life.attempt
     IN  /\ attempt < maxRetries
         /\ IF outcome # "ok" /\ RetryAgain(attempt, maxRetries)
            THEN /\ life' = [life EXCEPT !.attempt = attempt + 1,
                                         !.sleeps = Append(@, Backoff(attempt))]
                 /\ UNCHANGED <<followers, leaderHealth, followerHealthMap, mon>>
            ELSE AfterConnect(outcome = "ok",
                   CASE outcome = "ok" -> NilErr
                     [] outcome = "open" ->
                          Errorf("sqlkit: failed to open connection after attempts", {OpenErr})
                     [] outcome = "ping" ->
                          Errorf("sqlkit: failed to ping connection after attempts", {PingErr}))
  /\ UNCHANGED <<followerIdx, followerMu, healthMu, call, hist, cfg, repo>>
  /\ UNCHANGED txVars

\* ------------------------------------------------------------------- Close
\* The connections Close calls Close() on, in order: db.leader, then
\* db.followers (no slot of which is nil)
CloseTargets == <<LeaderHandle>> \o followers

\* fmt.Errorf("leader close error: %w", err) / ("follower %d close error: %w", i, err)
CloseError(h) ==
  [msg |-> IF h = LeaderHandle THEN "leader close error" ELSE "follower close error",
   who |-> h, chain |-> CloseErr.chain]

RECURSIVE CloseLoopStopAtFirst(_, _)
CloseLoopStopAtFirst(targets, failing) ==
  IF targets = <<>> THEN [tried |-> <<>>, errs |-> <<>>]
  ELSE LET h == Head(targets)
       IN  IF h \in failing THEN [tried |-> <<h>>, errs |-> <<CloseError(h)>>]
           ELSE LET rest == CloseLoopStopAtFirst(Tail(targets), failing)
                IN  [tried |-> <<h>> \o rest.tried, errs |-> rest.errs]

\* Close's passes over the leader and the followers: the connections it
\* called Close() on and the errs slice it collected
RECURSIVE CloseLoop(_, _)
CloseLoop(targets, failing) ==
  IF targets = <<>> THEN [tried |-> <<>>, errs |-> <<>>]
  ELSE LET h == Head(targets)
           rest == CloseLoop(Tail(targets), failing)
       IN  [tried |-> <<h>> \o rest.tried,
            errs |-> IF h \in failing THEN <<CloseError(h)>> \o rest.errs ELSE rest.errs]

\* `if len(errs) > 0 { return fmt.Errorf("sqlkit: errors during close: %v", errs) }; return nil`
\* %v prints every element of errs into the message and wraps none of them.
CloseResult(errs) ==
  IF Len(errs) > 0
  THEN [msg |-> "sqlkit: errors during close", chain |-> {}, shows |-> errs]
  ELSE [msg |-> NilErr.msg, chain |-> {}, shows |-> <<>>]

\* db.Close(); failing: the connections whose Close() returns an error
Close(failing) ==
  /\ life.pc = "live"
  /\ failing \subseteq {CloseTargets[k] : k \in DOMAIN CloseTargets}
  /\ LET loop == CloseLoop(CloseTargets, failing)
     IN  life' = [life EXCEPT !.pc = "closed", !.cancelled = TRUE,
                              !.closeTried = loop.tried, !.closeFailing = failing,
                              !.closeErr = CloseResult(loop.errs)]
  /\ UNCHANGED <<followers, followerIdx, followerMu, healthMu, leaderHealth,
                 followerHealthMap, call, mon, hist, cfg, repo>>
  /\ UNCHANGED txVars

\* The ctx passed to New is cancelled by its owner: db.ctx, made from it by
\* context.WithCancel(ctx), is cancelled with it.  Nothing is closed.
CancelParent ==
  /\ life.pc = "live"
  /\ ~life.cancelled
  /\ life' = [life EXCEPT !.cancelled = TRUE]
  /\ UNCHANGED <<followers, followerIdx, followerMu, healthMu, leaderHealth,
                 followerHealthMap, call, mon, hist, cfg, repo>>
  /\ UNCHANGED txVars

\* --------------------------------------------------------------- GetHealth
GetHealth ==
  [Leader |-> leaderHealth,
   Followers |-> [i \in 0..(NumFollowers - 1) |->
                    IF i \in DOMAIN followerHealthMap THEN followerHealthMap[i]
                    ELSE Snapshot(FALSE, "")]]

\* IsHealthy(): db.leaderHealth.Healthy, read under the health read lock
IsHealthy == leaderHealth.Healthy

\* ------------------------------------------- checkHealth, run to completion
\* One whole probe cycle between two steps of the request path: every
\* connection pinged, every snapshot replaced.
CheckHealth(leaderOk, followerOk) ==
  /\ mon.pc = "tick"
  /\ ~healthMu.writer /\ healthMu.readers = {}
  /\ leaderOk => Ping("answers", BornExpired(cfg.health.Timeout))
  /\ \A idx \in DOMAIN followerOk :
       followerOk[idx] => Ping("answers", BornExpired(cfg.health.Timeout))
  /\ leaderHealth' = ProbeSnapshot(leaderHealth, leaderOk)
  /\ followerHealthMap' =
       [idx \in DOMAIN followerHealthMap \cup 0..(NumFollowers - 1) |->
          IF idx \in DOMAIN followerOk
          THEN ProbeSnapshot(followerHealthMap[idx], followerOk[idx])
          ELSE followerHealthMap[idx]]
  /\ hist' = <<>>
  /\ call' = [c \in Callers |->
                IF call[c].pc = "idle" THEN call[c]
                ELSE [call[c] EXCEPT !.steady = {idx \in @ : followerOk[idx]}]]
  /\ UNCHANGED <<followers, followerIdx, followerMu, healthMu, mon>>
  /\ UNCHANGED <<txVars, mgrVars>>

\* -------------------------------------------------------------- repository
NoRepo == [op |-> "none", ctx |-> NoCtx, kind |-> "none", id |-> -1]

\* BaseRepository.GetConnection(ctx)
GetConnection(c) ==
  /\ c \in DOMAIN ctxs
  /\ LET t == ExtractTx(ctxs, c)
     IN  repo' = IF t.ok
                 THEN [op |-> "GetConnection", ctx |-> c, kind |-> "tx", id |-> t.tx]
                 ELSE [op |-> "GetConnection", ctx |-> c, kind |-> "db", id |-> LeaderHandle]
  /\ UNCHANGED <<routerVars, txVars, cfg, life>>

GetReadConnectionNoTx(c) ==
  /\ c \in DOMAIN ctxs
  /\ repo' = [op |-> "GetReadConnection", ctx |-> c, kind |-> "db", id |-> Follower.handle]
  /\ followerIdx' = Follower.cursor
  /\ UNCHANGED <<followers, followerMu, healthMu, leaderHealth, followerHealthMap,
                 call, mon, hist, cfg, life>>
  /\ UNCHANGED txVars

\* BaseRepository.GetReadConnection(ctx)
GetReadConnection(c) ==
  /\ c \in DOMAIN ctxs
  /\ LET t == ExtractTx(ctxs, c)
     IN  IF t.ok
         THEN /\ repo' = [op |-> "GetReadConnection", ctx |-> c, kind |-> "tx", id |-> t.tx]
              /\ UNCHANGED followerIdx
         ELSE /\ repo' = [op |-> "GetReadConnection", ctx |-> c, kind |-> "db",
                          id |-> Follower.handle]
              /\ followerIdx' = Follower.cursor
  /\ UNCHANGED <<followers, followerMu, healthMu, leaderHealth, followerHealthMap,
                 call, mon, hist, cfg, life>>
  /\ UNCHANGED txVars

\* -------------------------------------------------------------------- init
\* initFollowers: the configured followers that connected, in configured
\* order, each entered healthy at its index in the live list.
RECURSIVE Connected(_, _)
Connected(k, up) ==
  IF k = 0 THEN <<>>
  ELSE IF k \in up THEN Append(Connected(k - 1, up), k)
       ELSE Connected(k - 1, up)

InitFollowers(k, up) ==
  LET live == Connected(k, up)
  IN  /\ followers = live
      /\ followerHealthMap = [idx \in 0..(Len(live) - 1) |-> Snapshot(TRUE, "")]

Init ==
  /\ ctxs = <<[parent |-> NoCtx, key |-> "background", val |-> 0]>>
  /\ txs = <<>>
  /\ inv = [i \in Invocations |-> IdleFrame]
  /\ \E k \in 0..MaxFollowers : \E up \in SUBSET (1..k) :
        /\ InitFollowers(k, up)
        /\ cfg = [valid |-> TRUE, nFollowers |-> k, maxRetries |-> 0,
                  supplied |-> DefaultHealthConfig, health |-> DefaultHealthConfig]
        /\ life = [BeforeNew EXCEPT !.pc = "live", !.ep = k, !.leaderUp = TRUE,
                                    !.failed = (1..k) \ up]
  /\ followerIdx = 0
  /\ followerMu = 0
  /\ healthMu = [writer |-> FALSE, readers |-> {}]
  /\ leaderHealth = Snapshot(TRUE, "")
  /\ call = [c \in Callers |-> IdleCall]
  /\ mon = [pc |-> "tick", i |-> 0, leaderHealthy |-> TRUE, expired |-> FALSE,
            probed |-> "none", ticker |-> "running"]
  /\ hist = <<>>
  /\ repo = NoRepo

\* The state New is called in: no manager yet, any configuration
InitNew ==
  /\ ctxs = <<[parent |-> NoCtx, key |-> "background", val |-> 0]>>
  /\ txs = <<>>
  /\ inv = [i \in Invocations |-> IdleFrame]
  /\ followers = <<>>
  /\ followerHealthMap = [idx \in {} |-> Snapshot(FALSE, "")]
  /\ followerIdx = 0
  /\ followerMu = 0
  /\ healthMu = [writer |-> FALSE, readers |-> {}]
  /\ leaderHealth = Snapshot(FALSE, "")
  /\ call = [c \in Callers |-> IdleCall]
  /\ mon = [pc |-> "off", i |-> 0, leaderHealthy |-> TRUE, expired |-> FALSE,
            probed |-> "none", ticker |-> "none"]
  /\ hist = <<>>
  /\ cfg \in {g \in Configs : g.health = g.supplied}
  /\ life = BeforeNew
  /\ repo = NoRepo

\* ------------------------------------------------- transaction coordinator
NextTx ==
  \/ \E i \in Invocations, c \in 1..MaxCtx, ok \in BOOLEAN : WithTransaction(i, c, ok)
  \/ \E i \in Invocations, c \in 1..MaxCtx, ro \in BOOLEAN, ok \in BOOLEAN :
        WithTransactionOptions(i, c, ro, ok)
  \/ \E i \in Invocations, c \in 1..MaxCtx, ok \in BOOLEAN : WithReadOnlyTransaction(i, c, ok)
  \/ \E p \in 1..MaxCtx : DeriveScope(p)
  \/ \E i \in Invocations, o \in {"nil", "err", "panic"} : BodyExit(i, o)
  \/ \E i \in Invocations, ok \in BOOLEAN : Deferred(i, ok)
  \/ \E i \in Invocations : Return(i)

SpecTx == Init /\ [][NextTx]_vars

\* ------------------------------------------------ router and health monitor
NextRouter ==
  \/ \E c \in Callers : FollowerBegin(c)
  \/ \E c \in Callers : FollowerLock(c)
  \/ \E c \in Callers : FollowerScan(c)
  \/ \E c \in Callers : FollowerFallback(c)
  \/ \E r \in {"answers", "refuses"} : MonPingLeader(r)
  \/ MonWriteLeader
  \/ MonLockFollowers
  \/ \E r \in {"answers", "refuses"} : MonProbeFollower(r)
  \/ MonUnlock

SpecRouter == Init /\ [][NextRouter]_vars

\* ------------------------- transactions while the monitor probes followers
\* The request path with every transaction succeeding (failures of begin,
\* body, commit and rollback are SpecTx's subject and do not bear on the
\* handle chosen)
NextTxOk ==
  \/ \E i \in Invocations, c \in 1..MaxCtx : WithTransaction(i, c, TRUE)
  \/ \E i \in Invocations, c \in 1..MaxCtx, ro \in BOOLEAN :
        WithTransactionOptions(i, c, ro, TRUE)
  \/ \E i \in Invocations, c \in 1..MaxCtx : WithReadOnlyTransaction(i, c, TRUE)
  \/ \E p \in 1..MaxCtx : DeriveScope(p)
  \/ \E i \in Invocations : BodyExit(i, "nil")
  \/ \E i \in Invocations : Deferred(i, TRUE)
  \/ \E i \in Invocations : Return(i)

NextReadOnly ==
  \/ NextTxOk
  \/ \E fok \in [0..(NumFollowers - 1) -> BOOLEAN] : CheckHealth(TRUE, fok)

SpecReadOnly == Init /\ [][NextReadOnly]_vars

\* ------------------------------- repository calls in and out of transactions
\* The repository sees only the scope it is called with: one entry point
\* beginning on the leader and one on a follower, every transaction succeeding
NextRepo ==
  \/ \E i \in Invocations, c \in 1..MaxCtx : WithTransaction(i, c, TRUE)
  \/ \E i \in Invocations, c \in 1..MaxCtx : WithReadOnlyTransaction(i, c, TRUE)
  \/ \E p \in 1..MaxCtx : DeriveScope(p)
  \/ \E i \in Invocations : BodyExit(i, "nil")
  \/ \E i \in Invocations : Deferred(i, TRUE)
  \/ \E i \in Invocations : Return(i)
  \/ \E c \in 1..MaxCtx : GetConnection(c)
  \/ \E c \in 1..MaxCtx : GetReadConnection(c)

SpecRepo == Init /\ [][NextRepo]_vars

\* ------------------------------------------- construction, monitor, Close
NextLife ==
  \/ New
  \/ \E o \in {"ok", "open", "ping"} : ConnectAttempt(o)
  \/ \E r \in Outcomes : MonPingLeader(r)
  \/ MonWriteLeader
  \/ MonLockFollowers
  \/ \E r \in Outcomes : MonProbeFollower(r)
  \/ MonUnlock
  \/ MonExit
  \/ \E failing \in SUBSET (0..MaxFollowers) : Close(failing)

SpecLife == InitNew /\ [][NextLife]_vars

\* What a caller can do next, and what the monitor can do next inside a cycle
CallerStep(c) ==
  \/ FollowerLock(c)
  \/ FollowerScan(c)
  \/ FollowerFallback(c)
  \/ ReadRLock(c)
  \/ ReadReturn(c)

MonitorStep ==
  \/ MonWriteLeader
  \/ MonLockFollowers
  \/ \E r \in {"answers", "refuses"} : MonProbeFollower(r)
  \/ MonUnlock

\* Concurrent Follower(), GetHealth() and IsHealthy() calls, the monitor and
\* Close(), every lock operation a step of its own
NextLocks ==
  \/ \E c \in Callers : FollowerBegin(c)
  \/ \E c \in Callers, op \in Readers : ReadBegin(c, op)
  \/ \E c \in Callers : CallerStep(c)
  \/ \E r \in {"answers", "refuses"} : MonPingLeader(r)
  \/ MonitorStep
  \/ MonExit
  \/ Close({})

\* A constructed manager with few followers, all connected: the locks taken
\* do not depend on how many followers there are
InitLocks == Init /\ cfg.nFollowers <= MaxLockFollowers /\ NumFollowers = cfg.nFollowers

SpecLocks == InitLocks /\ [][NextLocks]_vars

\* The monitor goroutine of a constructed manager, with Close and with the
\* cancellation of New's ctx
MonCycle ==
  \/ MonWriteLeader
  \/ MonLockFollowers
  \/ \E r \in Outcomes : MonProbeFollower(r)
  \/ MonUnlock

NextMonitor ==
  \/ \E r \in Outcomes : MonPingLeader(r)
  \/ MonCycle
  \/ MonExit
  \/ \E failing \in SUBSET (0..MaxFollowers) : Close(failing)
  \/ CancelParent

\* The goroutine is scheduled and every ping returns (the cycle's context
\* bounds it), so a cycle under way goes on: WF.  At the select, a ready
\* Done case is chosen at random against a ready tick, so it cannot lose
\* forever: SF.
SpecMonitor ==
  Init /\ [][NextMonitor]_vars /\ WF_vars(MonCycle) /\ SF_vars(MonExit)

\* =================================================================== claims
Done(i) == inv[i].pc = "done"
Begun(i) == inv[i].tx # NoTx

\* Some node on c's parent chain holds a transaction
Carries(heap, c) ==
  \E d \in DOMAIN heap : DerivedFrom(heap, c, d) /\ heap[d].key = "txKey"

\* The transactions no Commit or Rollback has been called on
OpenTxs == {t \in DOMAIN txs : txs[t] = "open"}

\* C1: every invocation whose transaction was begun invokes the body exactly
\* once and, however the body exits, attempts exactly one of commit and
\* rollback on that transaction (none before the body has exited).
C1_ExactlyOneTerminal ==
  \A i \in Invocations :
    Begun(i) =>
      /\ inv[i].bodyCalls = 1
      /\ Done(i) => /\ inv[i].commits + inv[i].rollbacks = 1
                    /\ inv[i].tx \notin OpenTxs
      /\ ~Done(i) => /\ inv[i].commits + inv[i].rollbacks = 0
                     /\ inv[i].tx \in OpenTxs

C1_Witness ==
  \E i, j \in Invocations :
    /\ i < j
    /\ inv[i].pc = "body" /\ inv[i].bodyCalls = 1
    /\ Done(j) /\ Begun(j) /\ inv[j].outcome = "panic" /\ inv[j].rollbacks = 1

C3_ErrorRollsBackNilCommits ==
  \A i \in Invocations :
    Done(i) =>
      /\ inv[i].outcome = "err" =>
           /\ inv[i].rollbacks = 1 /\ inv[i].commits = 0
           /\ inv[i].exit = "return"
           /\ "body" \in inv[i].result.chain
      /\ inv[i].outcome = "nil" =>
           /\ inv[i].commits = 1 /\ inv[i].rollbacks = 0
           /\ inv[i].exit = "return"

C3_Witness ==
  \E i, j \in Invocations :
    /\ i < j
    /\ inv[i].pc = "body" /\ inv[i].kind = "WithTransaction"
    /\ Done(j) /\ inv[j].kind = "WithReadOnlyTransaction" /\ inv[j].outcome = "nil"
    /\ inv[j].readOnly /\ inv[j].commits = 1 /\ inv[j].termOk

\* C4: an entry point called with a scope that carries a transaction returns
\* an error at once: it begins no transaction, does not invoke the body and
\* attempts no commit or rollback, on its own or on the carried transaction
\* (the open transactions stay those of the invocations still in progress).
C4_NestedRejected ==
  \A i \in Invocations :
    (inv[i].pc # "idle" /\ Carries(ctxs, inv[i].ctx)) =>
      /\ Done(i) /\ inv[i].exit = "return" /\ inv[i].result # NilErr
      /\ ~Begun(i) /\ inv[i].txCtx = NoCtx
      /\ inv[i].bodyCalls = 0 /\ inv[i].commits = 0 /\ inv[i].rollbacks = 0
      /\ OpenTxs = {inv[j].tx : j \in {k \in Invocations : Begun(k) /\ ~Done(k)}}
      /\ \A j \in Invocations : inv[j].pc = "body" => inv[j].commits + inv[j].rollbacks = 0

C4_Witness ==
  \E i, j \in Invocations :
    /\ j < i
    /\ inv[j].pc = "body"
    /\ Done(i) /\ inv[i].result = ErrNested
    /\ inv[i].ctx # inv[j].txCtx /\ DerivedFrom(ctxs, inv[i].ctx, inv[j].txCtx)
    /\ ExtractTx(ctxs, inv[i].ctx).tx = inv[j].tx
    /\ OpenTxs = {inv[j].tx}

\* C5: a panicking body leads to rollback, never commit, and the entry point
\* exits by panic, never by a normal return; with a successful rollback the
\* value in flight is the body's own.
C5_PanicRollsBackAndPropagates ==
  \A i \in Invocations :
    (Done(i) /\ inv[i].outcome = "panic") =>
      /\ inv[i].exit = "panic"
      /\ inv[i].rollbacks = 1 /\ inv[i].commits = 0
      /\ inv[i].termOk => inv[i].panicVal = PanicValue

C5_Witness ==
  \E i \in Invocations :
    Done(i) /\ inv[i].outcome = "panic" /\ inv[i].termOk /\ inv[i].exit = "panic"

\* C6: body returned an error and the rollback failed: the returned error
\* wraps the body error together with the rollback error.
C6_BothErrorsReturned ==
  \A i \in Invocations :
    (Done(i) /\ inv[i].outcome = "err" /\ ~inv[i].termOk) =>
      /\ "body" \in inv[i].result.chain
      /\ "rollback" \in inv[i].result.chain

\* C7: body panicked and the rollback failed: the value re-raised carries the
\* original panic value and the rollback failure.
C7_PanicAndRollbackBothRaised ==
  \A i \in Invocations :
    (Done(i) /\ inv[i].outcome = "panic" /\ ~inv[i].termOk) =>
      /\ inv[i].exit = "panic"
      /\ "panic" \in inv[i].panicVal.chain
      /\ "rollback" \in inv[i].panicVal.chain

\* C8: while the body runs, the derived scope and every scope derived from it
\* yield exactly the transaction this invocation began; the original scope
\* yields none, during and after the invocation (InjectTx left it as it was).
C8_TxVisibleInDerivedScopeOnly ==
  \A i \in Invocations :
    Begun(i) =>
      /\ ~ExtractTx(ctxs, inv[i].ctx).ok
      /\ ~Carries(ctxs, inv[i].ctx)
      /\ ctxs[inv[i].txCtx].parent = inv[i].ctx
      /\ inv[i].pc = "body" =>
           \A c \in DOMAIN ctxs :
             DerivedFrom(ctxs, c, inv[i].txCtx) =>
               ExtractTx(ctxs, c) = [tx |-> inv[i].tx, ok |-> TRUE]

C8_Witness ==
  \E i \in Invocations, c \in DOMAIN ctxs :
    /\ inv[i].pc = "body"
    /\ c # inv[i].txCtx /\ DerivedFrom(ctxs, c, inv[i].txCtx)
    /\ ctxs[c].key = "otherKey"
    /\ ExtractTx(ctxs, c) = [tx |-> inv[i].tx, ok |-> TRUE]
    /\ ExtractTx(ctxs, inv[i].ctx) = [tx |-> NoTx, ok |-> FALSE]

\* The healthy follower that follows idx in cyclic order
NextHealthy(idx) ==
  LET n == NumFollowers
      d == CHOOSE d \in 1..n :
             /\ HealthyAt(followerHealthMap, (idx + d) % n)
             /\ \A e \in 1..(d - 1) : ~HealthyAt(followerHealthMap, (idx + e) % n)
  IN  (idx + d) % n

Returns(c) == call[c].pc = "scan" /\ call'[c].pc = "idle"

\* C10: a Follower() call during which some follower stayed healthy returns a
\* follower, never the leader, whatever the cursor; and a follower returned
\* is marked healthy in the health table when it is returned.
C10_HealthyFollowerPreferred ==
  [][\A c \in Callers :
       Returns(c) =>
         LET ret == hist'[Len(hist')]
         IN  /\ call[c].steady # {} =>
                  /\ ret \in 0..(NumFollowers - 1)
                  /\ FollowerAt(ret) # LeaderHandle
             /\ ret # -1 => ret \in HealthySet]_vars

C10_Witness ==
  /\ NumFollowers = 2
  /\ HealthySet = {1}
  /\ hist = <<1, 1, 1>>
  /\ followerIdx = 0

\* No follower of the live list is marked healthy in the health table
AllDown ==
  \A idx \in 0..(NumFollowers - 1) :
    idx \notin DOMAIN followerHealthMap \/ ~followerHealthMap[idx].Healthy

\* C11: Follower() never returns nil; with no follower configured, or with
\* every follower marked unhealthy, it returns the leader's handle: the call
\* run against the current table does, and so did every call completed since
\* the table last changed.
C11_LeaderWhenNoFollowerUsable ==
  /\ Follower.handle # -1
  /\ Follower.handle \in {LeaderHandle} \cup {followers[k] : k \in DOMAIN followers}
  /\ (NumFollowers = 0 \/ AllDown) =>
       /\ Follower.handle = LeaderHandle
       /\ \A k \in 1..Len(hist) : hist[k] = -1

C11_Witness ==
  /\ NumFollowers = 2
  /\ AllDown
  /\ Len(hist) >= 2
  /\ \A k \in 1..Len(hist) : hist[k] = -1
  /\ Follower.handle = LeaderHandle

\* The monitor is in checkHealth's follower loop, holding healthMu for
\* writing, and the ping of follower mon.i is what it does next
ProbeUnderLock ==
  /\ healthMu.writer
  /\ mon.pc = "probe"
  /\ mon.i < NumFollowers
  /\ FollowerAt(mon.i) # -1

\* A Follower() call that has reached `db.healthMu.RLock()` in its scan loop
AtRLock(c) == call[c].pc = "scan" /\ call[c].i < NumFollowers

\* C12: a Follower() call never waits on network I/O: no call stands at the
\* health lock while the monitor holds that lock across a ping.
C12_FollowerNeverWaitsOnProbe ==
  \A c \in Callers : AtRLock(c) => ~ProbeUnderLock

\* New has returned a manager
Constructed == life.pc \in {"live", "closed"}

\* C13: once constructed from K configured followers, the health table and
\* GetHealth().Followers have exactly K entries, one per configured position;
\* the entry of a follower whose connection failed is unhealthy and the
\* other followers sit at their configured positions.
C13_OneEntryPerConfiguredPosition ==
  Constructed =>
    /\ DOMAIN followerHealthMap = 0..(cfg.nFollowers - 1)
    /\ DOMAIN GetHealth.Followers = 0..(cfg.nFollowers - 1)
    /\ \A p \in 1..cfg.nFollowers :
         /\ p \in life.failed => ~GetHealth.Followers[p - 1].Healthy
         /\ p \notin life.failed => FollowerAt(p - 1) = p

\* C14: New fails only for an invalid configuration or a leader that could
\* not be connected after its retries, and then there is no manager and no
\* monitor; follower failures never fail New: the manager is returned with
\* the followers that did connect, and routes reads without the others.
C14_OnlyLeaderFailureFailsNew ==
  /\ life.err # NilErr <=> life.pc = "failed"
  /\ life.pc = "failed" =>
       /\ \/ ~cfg.valid
          \/ /\ life.last.ep = 0 /\ ~life.last.ok
             /\ life.last.attempts = (IF cfg.maxRetries = 0 THEN 3 ELSE cfg.maxRetries)
       /\ mon.pc = "off"
       /\ followers = <<>>
  /\ Constructed =>
       /\ cfg.valid /\ life.leaderUp
       /\ followers = Connected(cfg.nFollowers, (1..cfg.nFollowers) \ life.failed)
       /\ Follower.handle \in {LeaderHandle} \cup ((1..cfg.nFollowers) \ life.failed)
       /\ life.failed = 1..cfg.nFollowers => Follower.handle = LeaderHandle

C14_Witness ==
  /\ Constructed
  /\ cfg.nFollowers = 2
  /\ life.failed = {1, 2}
  /\ life.err = NilErr
  /\ followers = <<>>

C16_CloseTriesAllReportsAll ==
  life.pc = "closed" =>
    LET all == {LeaderHandle} \cup {followers[k] : k \in DOMAIN followers}
        tried == life.closeTried
        shown == life.closeErr.shows
    IN  /\ {tried[k] : k \in DOMAIN tried} = all
        /\ Len(tried) = Cardinality(all)
        /\ life.closeErr.msg = NilErr.msg <=> life.closeFailing = {}
        /\ {shown[k].who : k \in DOMAIN shown} = life.closeFailing
        /\ life.closeFailing # {} => life.closeErr.msg = "sqlkit: errors during close"

C16_Witness ==
  /\ life.pc = "closed"
  /\ NumFollowers = 2
  /\ life.closeFailing = {LeaderHandle, followers[1]}
  /\ Len(life.closeErr.shows) = 2
  /\ Len(life.closeTried) = 3

\* C17: once Close() has returned, the health monitor has stopped: from then
\* on it issues no probe and writes no health snapshot; all it may still do
\* is leave its loop.
C17_NoProbeAfterClose ==
  [][life.pc = "closed" =>
       /\ leaderHealth' = leaderHealth
       /\ followerHealthMap' = followerHealthMap
       /\ mon' = mon \/ mon'.pc = "stopped"]_vars

\* The entry point of frame i has begun its transaction and calls the body
Begins(i) == inv[i].pc = "idle" /\ inv'[i].pc = "body"

\* The handles of the followers marked healthy in the health table
HealthyHandles ==
  {FollowerAt(idx) : idx \in {k \in 0..(NumFollowers - 1) :
                                k \in DOMAIN followerHealthMap /\ followerHealthMap[k].Healthy}}

\* C18: WithTransaction and WithTransactionOptions begin on the leader
\* whatever the follower health; WithReadOnlyTransaction begins a read-only
\* transaction on a healthy follower when there is one and on the leader
\* when there is none.
C18_HandleByEntryPoint ==
  [][\A i \in Invocations :
       Begins(i) =>
         LET f == inv'[i]
         IN  /\ f.kind \in {"WithTransaction", "WithTransactionOptions"} =>
                  f.conn = LeaderHandle
             /\ f.kind = "WithTransaction" => ~f.readOnly
             /\ f.kind = "WithReadOnlyTransaction" =>
                  /\ f.readOnly
                  /\ HealthyHandles # {} => f.conn \in HealthyHandles
                  /\ HealthyHandles = {} => f.conn = LeaderHandle]_vars

C18_Witness ==
  /\ NumFollowers = 2
  /\ inv[1].pc = "body" /\ inv[1].kind = "WithReadOnlyTransaction"
  /\ inv[1].conn = LeaderHandle /\ inv[1].readOnly
  /\ inv[2].pc = "body" /\ inv[2].kind = "WithReadOnlyTransaction"
  /\ inv[2].conn = followers[2] /\ inv[2].readOnly
  /\ HealthyHandles = {followers[2]}

\* C19: a repository call with a scope that carries a transaction returns
\* that transaction and does not call Follower(): inside a body, with the
\* derived scope or one derived from it, the transaction the invocation
\* began.  With a scope that carries none, GetConnection returns Leader()
\* and GetReadConnection returns Follower().
C19_RepositoryUsesScopeTx ==
  [][repo' # repo =>
       LET r == repo'
       IN  /\ Carries(ctxs, r.ctx) =>
                /\ r.kind = "tx"
                /\ \E d \in DOMAIN ctxs :
                     /\ DerivedFrom(ctxs, r.ctx, d)
                     /\ ctxs[d].key = "txKey" /\ ctxs[d].val = r.id
                /\ \A i \in Invocations :
                     (inv[i].pc = "body" /\ DerivedFrom(ctxs, r.ctx, inv[i].txCtx)) =>
                       r.id = inv[i].tx
                /\ followerIdx' = followerIdx
           /\ ~Carries(ctxs, r.ctx) =>
                /\ r.kind = "db"
                /\ r.op = "GetConnection" =>
                     r.id = LeaderHandle /\ followerIdx' = followerIdx
                /\ r.op = "GetReadConnection" =>
                     r.id = Follower.handle /\ followerIdx' = Follower.cursor]_vars

C19_Witness ==
  \E i \in Invocations :
    /\ inv[i].pc = "body"
    /\ repo.op = "GetReadConnection"
    /\ repo.ctx # inv[i].txCtx /\ DerivedFrom(ctxs, repo.ctx, inv[i].txCtx)
    /\ repo.kind = "tx" /\ repo.id = inv[i].tx
    /\ NumFollowers = 2

\* C20: New starts the health monitor iff the configuration it was given
\* has health checking enabled: with the flag false the monitor is never
\* started and no probe cycle runs.
C20_MonitorIffEnabled ==
  Constructed => (mon.pc # "off" <=> cfg.supplied.Enabled)

\* A step of caller c inside Follower()
FollowerStep(c) == call'[c].pc # call[c].pc \/ call'[c].i # call[c].i

\* The lookups and cursor writes of caller c once the step is taken: the
\* iteration that returns a follower makes one more of each
LookupsAfter(c) ==
  IF call[c].pc = "scan" /\ call'[c].pc = "idle" /\ call[c].i < NumFollowers
  THEN call[c].lookups + 1 ELSE call'[c].lookups

WritesAfter(c) ==
  IF call[c].pc = "scan" /\ call'[c].pc = "idle" /\ call[c].i < NumFollowers
  THEN call[c].writes + 1 ELSE call'[c].writes

C22_UnsetTimeoutDefaultsToFive ==
  (Constructed /\ cfg.supplied.Timeout = 0) =>
    /\ cfg.health.Timeout = DefaultHealthConfig.Timeout
    /\ (mon.pc = "leader" /\ mon.probed = "answers" /\ ~life.cancelled)
          => mon.leaderHealthy

\* The snapshots a reader holding the health read lock can be handed
Observed == {GetHealth.Leader} \cup {GetHealth.Followers[i] : i \in DOMAIN GetHealth.Followers}

\* C24: whatever point a probe cycle has reached, every snapshot that
\* GetHealth(), IsHealthy() or Follower() can read was written whole by one
\* probe: its error text is empty if and only if its healthy flag is set, and
\* IsHealthy() agrees with the leader snapshot of GetHealth().
C24_SnapshotsReplacedWhole ==
  /\ \A h \in Observed : (h.Error = "") <=> h.Healthy
  /\ \A idx \in 0..(NumFollowers - 1) :
       HealthyAt(followerHealthMap, idx) <=> (GetHealth.Followers[idx].Error = "")
  /\ IsHealthy <=> (GetHealth.Leader.Error = "")

\* a cycle is half way (leader written, followers not yet locked): the leader
\* snapshot went from healthy to "ping failed" while a follower snapshot is
\* still the healthy one of an earlier probe
C24_Witness ==
  /\ mon.pc = "followers" /\ ~healthMu.writer
  /\ leaderHealth = Snapshot(FALSE, "ping failed")
  /\ \E idx \in 0..(NumFollowers - 1) : followerHealthMap[idx] = Snapshot(TRUE, "")

\* C23: once Close() has cancelled the lifecycle context, the monitor
\* eventually takes the Done case and leaves its loop; having left it never
\* starts a probe cycle again, and its ticker is stopped.
C23_MonitorExitsAfterClose ==
  /\ (life.pc = "closed") ~> (mon.pc = "stopped")
  /\ [](mon.pc = "stopped" => mon.ticker = "stopped" /\ life.cancelled)
  /\ [][mon.pc = "stopped" => mon' = mon]_vars

C23_Witness ==
  life.pc = "closed" /\ mon.pc = "stopped" /\ mon.ticker = "stopped"

\* C25 as claimed: once an invocation has committed or rolled back, no scope
\* yields its transaction from ExtractTx (a scope yields only a transaction
\* still open), and an entry point is rejected as nested only for a scope
\* whose transaction is still open.
C25_NoScopeYieldsFinishedTx ==
  /\ \A c \in DOMAIN ctxs :
       ExtractTx(ctxs, c).ok => txs[ExtractTx(ctxs, c).tx] = "open"
  /\ \A i \in Invocations :
       inv[i].result = ErrNested => txs[ExtractTx(ctxs, inv[i].ctx).tx] = "open"

\* C25, amended: what ExtractTx yields for a scope never changes while the
\* scope exists.  The caller's scope never yields the transaction; the
\* derived scope, and every scope derived from it, keeps yielding it after
\* the invocation has committed or rolled back, and an entry point called
\* with such a scope is rejected as nested and begins nothing.
C25_ScopeKeepsItsTx ==
  [][/\ \A c \in DOMAIN ctxs : ExtractTx(ctxs', c) = ExtractTx(ctxs, c)
     /\ \A i \in Invocations :
          (inv[i].pc = "idle" /\ inv'[i].pc # "idle"
             /\ ExtractTx(ctxs, inv'[i].ctx).ok) =>
            /\ inv'[i].pc = "done" /\ inv'[i].result = ErrNested
            /\ inv'[i].bodyCalls = 0
            /\ txs' = txs /\ ctxs' = ctxs]_vars

\* an invocation has finished and returned; a later call made with its
\* derived scope is rejected as nested although that transaction is closed
C25_Witness ==
  \E i \in Invocations :
    /\ inv[i].pc = "done" /\ inv[i].result = ErrNested
    /\ ctxs[inv[i].ctx].key = "txKey"
    /\ txs[ExtractTx(ctxs, inv[i].ctx).tx] = "closed"
    /\ \A t \in DOMAIN txs : txs[t] = "closed"

\* C26: in a probe cycle run with a non-zero probe timeout and a live
\* lifecycle context, a follower that answers its own ping is recorded
\* healthy, whatever the leader's probe or an earlier follower's probe did.
C26_FollowerHealthFromOwnProbe ==
  (mon.pc = "probe" /\ mon.i >= 1 /\ mon.probed = "answers"
     /\ cfg.health.Timeout > 0 /\ ~life.cancelled)
    => followerHealthMap[mon.i - 1].Healthy

\* The scopes a transaction has been published into by InjectTx
Published == {c \in DOMAIN ctxs : ctxs[c].key = "txKey"}

\* C27: an entry point whose BeginTx failed has returned an error that wraps
\* the begin failure; it has not invoked the body, holds no transaction and
\* no derived scope, has attempted neither commit nor rollback, and has
\* published nothing: the scopes holding a transaction are exactly one per
\* transaction begun, and its own scope yields none.
C27_BeginFailureTouchesNothing ==
  \A i \in Invocations :
    (inv[i].pc # "idle" /\ ~inv[i].beginOk) =>
      /\ Done(i) /\ inv[i].exit = "return"
      /\ inv[i].result # NilErr /\ BeginErr.chain \subseteq inv[i].result.chain
      /\ inv[i].bodyCalls = 0
      /\ inv[i].commits = 0 /\ inv[i].rollbacks = 0
      /\ inv[i].tx = NoTx /\ inv[i].txCtx = NoCtx
      /\ ~ExtractTx(ctxs, inv[i].ctx).ok
      /\ Cardinality(Published) = Len(txs)
      /\ \A c \in Published : ctxs[c].val \in DOMAIN txs

\* a read-only entry point failed to begin inside the body of another
\* invocation, whose transaction is still the only one and still open
C27_Witness ==
  \E i, j \in Invocations :
    /\ j < i /\ inv[j].pc = "body"
    /\ Done(i) /\ ~inv[i].beginOk /\ inv[i].kind = "WithReadOnlyTransaction"
    /\ inv[i].result.msg = "sqlkit: failed to begin read-only transaction"
    /\ Len(txs) = 1 /\ txs[1] = "open"

\* The callers between followerMu.Lock() and the deferred Unlock()
Scanning == {c \in Callers : call[c].pc = "scan"}

\* C28: at most one Follower() call is inside its scan-and-advance, and it
\* is the holder of the cursor lock; the cursor stays within 0..N-1; and
\* while all N >= 1 followers are healthy, the calls made since the health
\* table last changed never return the leader and any N consecutive ones
\* return N distinct followers, however concurrent callers interleave.
C28_FollowerCallsExclusive ==
  /\ Cardinality(Scanning) <= 1
  /\ \A c \in Callers : c \in Scanning <=> followerMu = c
  /\ NumFollowers >= 1 => followerIdx \in 0..(NumFollowers - 1)
  /\ (NumFollowers >= 1 /\ HealthySet = 0..(NumFollowers - 1)) =>
       /\ \A k \in 1..Len(hist) : k >= 2 => hist[k] \in 0..(NumFollowers - 1)
       /\ \A j, k \in 1..Len(hist) :
            (j < k /\ k - j < NumFollowers) => hist[j] # hist[k]
       /\ (Scanning = {} /\ hist # <<>> /\ hist[Len(hist)] # -1) =>
            followerIdx = (hist[Len(hist)] + 1) % NumFollowers

\* two followers, both healthy, two calls under way at once: one holds the
\* cursor lock and the other waits for it, after calls that returned both
\* followers from a cursor that was not at 0
C28_Witness ==
  /\ NumFollowers = 2 /\ HealthySet = {0, 1}
  /\ \E c, d \in Callers : call[c].pc = "scan" /\ call[d].pc = "lock"
  /\ Len(hist) = 3
  /\ hist[2] = 1 /\ hist[3] = 0

\* A call under way, a probe cycle under way
InCall(c) == call[c].pc # "idle"
InCycle == mon.pc \in {"leader", "followers", "probe"}

\* C29: no lock is held outside the operation that took it (cursor lock:
\* a Follower() call in its scan; health write lock: the monitor in its
\* follower loop; health read lock: a GetHealth()/IsHealthy() call), a holder
\* of the health lock never holds or asks for the cursor lock, and nobody
\* waits in a cycle: a caller that cannot step waits for a lock whose holder
\* can step, and a monitor that cannot step waits for readers that can all
\* return.
C29_NoDeadlock ==
  /\ \A c \in Callers : followerMu = c <=> call[c].pc = "scan"
  /\ followerMu \in Callers \cup {0}
  /\ healthMu.writer <=> mon.pc = "probe"
  /\ healthMu.writer => healthMu.readers = {}
  /\ \A c \in Callers : c \in healthMu.readers => call[c].pc \in Readers /\ followerMu # c
  /\ \A c \in Callers :
       (InCall(c) /\ ~ENABLED CallerStep(c)) =>
         \/ /\ call[c].pc = "lock"
            /\ followerMu \in Callers \ {c}
            /\ \/ ENABLED CallerStep(followerMu)
               \/ healthMu.writer /\ ENABLED MonitorStep
         \/ /\ call[c].pc \in Readers \cup {"scan"}
            /\ healthMu.writer /\ ENABLED MonitorStep
  /\ (InCycle /\ ~ENABLED MonitorStep) =>
       /\ healthMu.readers # {}
       /\ \A c \in healthMu.readers : ENABLED ReadReturn(c)

\* every lock is contended at once: one caller holds the cursor lock and
\* waits in its scan for the health lock the monitor holds for writing,
\* while the other caller waits for the cursor lock
C29_Witness ==
  /\ healthMu.writer /\ mon.pc = "probe"
  /\ \E c, d \in Callers :
       /\ call[c].pc = "scan" /\ followerMu = c /\ ~ENABLED CallerStep(c)
       /\ call[d].pc = "lock" /\ ~ENABLED CallerStep(d)

\* C30: when the ctx passed to New is cancelled and Close() has not been
\* called, the monitor eventually leaves its loop all the same; once it has,
\* the health table is never written again, so GetHealth(), IsHealthy() and
\* Follower() keep giving the answers of the last published snapshots.
C30_MonitorStopsOnParentCancel ==
  /\ (life.cancelled /\ life.pc = "live") ~> (mon.pc = "stopped")
  /\ [][mon.pc = "stopped" =>
         /\ leaderHealth' = leaderHealth /\ followerHealthMap' = followerHealthMap
         /\ GetHealth' = GetHealth /\ IsHealthy' = IsHealthy
         /\ Follower' = Follower]_vars

\* the monitor has stopped, Close() was never called (nothing was closed),
\* and the last cycle left a follower marked unhealthy: Follower() answers
\* with the leader from now on
C30_Witness ==
  /\ mon.pc = "stopped" /\ life.pc = "live" /\ life.closeTried = BeforeNew.closeTried
  /\ NumFollowers = 1 /\ ~followerHealthMap[0].Healthy
  /\ Follower.handle = LeaderHandle
====
